---- MODULE Spec2Model ----
(***************************************************************************)
(* A model of bitcoinutils/transactions.py: the Transaction container, its *)
(* wire serialisation and parser, and the three signature-digest engines   *)
(* (legacy, segwit v0 / BIP-143, taproot / BIP-341).                       *)
(*                                                                         *)
(* Python objects live in a heap of cells addressed by naturals, so that   *)
(* the sharing that the copy() class methods leave between a transaction   *)
(* and its clone is part of the model.  bytes, str and int are immutable   *)
(* in Python and are modelled as values.                                   *)
(*                                                                         *)
(* A byte is a record [t, v, of].  A literal byte is [t |-> "b", v |-> n]. *)
(* SHA-256 is not computed: byte k of a digest of the data d is the record *)
(* [t |-> <hash name>, v |-> k, of |-> d], i.e. hashes are injective       *)
(* constructors of 32 bytes (no collisions, and no digest is ever equal to *)
(* literal bytes).                                                         *)
(***************************************************************************)
EXTENDS Integers, Sequences, FiniteSets, TLC

VARIABLES heap, pc, frame, result

vars == <<heap, pc, frame, result>>

(***************************************************************************)
(* Bounds of the model.                                                    *)
(***************************************************************************)
MaxInputs == 2

MaxOutputs == 2

(***************************************************************************)
(* Constants imported from bitcoinutils.constants (transactions.py:17-23). *)
(***************************************************************************)
SIGHASH_ALL == 1

SIGHASH_NONE == 2

SIGHASH_SINGLE == 3

SIGHASH_ANYONECANPAY == 128

TAPROOT_SIGHASH_ALL == 0

LEAF_VERSION_TAPSCRIPT == 192

NEGATIVE_SATOSHI == -1

(***************************************************************************)
(* Bytes, integers and hex text.                                           *)
(***************************************************************************)
B(n) == [t |-> "b", v |-> n, of |-> <<>>]

Bytes(s) == [i \in 1..Len(s) |-> B(s[i])]

Zeros(n) == [i \in 1..n |-> B(0)]

Reverse(s) == [i \in 1..Len(s) |-> s[Len(s) + 1 - i]]

RECURSIVE Flatten(_)
Flatten(ss) ==
    IF Len(ss) = 0 THEN <<>>
    ELSE IF Len(ss) = 1 THEN ss[1]
    ELSE LET m == Len(ss) \div 2
         IN  Flatten(SubSeq(ss, 1, m)) \o Flatten(SubSeq(ss, m + 1, Len(ss)))

RECURSIVE BitAnd(_, _)
BitAnd(a, b) ==
    IF a = 0 \/ b = 0 THEN 0
    ELSE (a % 2) * (b % 2) + 2 * BitAnd(a \div 2, b \div 2)

RECURSIVE BitOr(_, _)
BitOr(a, b) ==
    IF a = 0 THEN b
    ELSE IF b = 0 THEN a
    ELSE (IF a % 2 = 1 \/ b % 2 = 1 THEN 1 ELSE 0) + 2 * BitOr(a \div 2, b \div 2)

RECURSIVE le_digits(_, _)
le_digits(n, w) ==
    IF w = 0 THEN <<>> ELSE <<n % 256>> \o le_digits(n \div 256, w - 1)

\* struct.pack('<L' | '<I' | '<Q' | 'B', n) and n.to_bytes(w, 'little'):
\* w bytes, least significant first (n >= 0; a negative n raises in Python).
pack_unsigned(n, w) == Bytes(le_digits(n, w))

\* struct.pack('<q' | '<i', n): two's complement, least significant first.
pack_signed(n, w) ==
    IF n >= 0 THEN Bytes(le_digits(n, w))
    ELSE Bytes([i \in 1..w |-> 255 - le_digits(-n - 1, w)[i]])

\* int.from_bytes(b, 'big')
RECURSIVE from_bytes_big(_)
from_bytes_big(b) ==
    IF b = <<>> THEN 0
    ELSE from_bytes_big(SubSeq(b, 1, Len(b) - 1)) * 256 + b[Len(b)].v

\* Hex text is a sequence of nibbles 0..15.
unhexlify(h) == [i \in 1..(Len(h) \div 2) |-> B(16 * h[2 * i - 1] + h[2 * i])]

hexlify(b) ==
    [i \in 1..(2 * Len(b)) |->
        IF i % 2 = 1 THEN b[(i + 1) \div 2].v \div 16 ELSE b[i \div 2].v % 16]

\* chr(n).encode(): the UTF-8 encoding of code point n (n < 2048).
chr_encode(n) ==
    IF n < 128 THEN <<B(n)>>
    ELSE <<B(192 + (n \div 64)), B(128 + (n % 64))>>

\* Python slice b[lo:hi] of a bytes value, 0-based, clipped to the value.
Slice(b, lo, hi) ==
    LET h == IF hi > Len(b) THEN Len(b) ELSE hi
    IN  IF lo >= h THEN <<>> ELSE SubSeq(b, lo + 1, h)

(***************************************************************************)
(* Hashes: hashlib.sha256(x).digest(), its double application, and         *)
(* utils.tagged_hash.                                                      *)
(***************************************************************************)
sha256(data) == [k \in 1..32 |-> [t |-> "sha256", v |-> k, of |-> data]]

\* hashlib.sha256(hashlib.sha256(data).digest()).digest()
sha256d(data) == [k \in 1..32 |-> [t |-> "sha256d", v |-> k, of |-> data]]

tagged_hash(data, tag) == [k \in 1..32 |-> [t |-> tag, v |-> k, of |-> data]]

(***************************************************************************)
(* utils.encode_varint, utils.prepend_varint, utils.vi_to_int.             *)
(***************************************************************************)
encode_varint(i) ==
    IF i < 253 THEN <<B(i)>>
    ELSE IF i < 65536 THEN <<B(253)>> \o pack_unsigned(i, 2)
    ELSE <<B(254)>> \o pack_unsigned(i, 4)

prepend_varint(data) == encode_varint(Len(data)) \o data

\* vi_to_int(b): [err, value, size]; reading b[0] of an empty value raises.
vi_to_int(b) ==
    IF b = <<>> THEN [err |-> TRUE, value |-> 0, size |-> 0]
    ELSE IF b[1].v < 253 THEN [err |-> FALSE, value |-> b[1].v, size |-> 1]
    ELSE LET size == IF b[1].v = 253 THEN 2 ELSE IF b[1].v = 254 THEN 4 ELSE 8
         IN  [err |-> FALSE,
              value |-> from_bytes_big(Reverse(Slice(b, 1, 1 + size))),
              size |-> size + 1]

(***************************************************************************)
(* Script (bitcoinutils.script): an opaque value with a canonical byte     *)
(* encoding; Script([]) encodes to no bytes.                               *)
(***************************************************************************)
Script(raw) == [script |-> raw]

Script_to_bytes(s) == s.script

Script_from_raw(raw) == Script(raw)

EmptyScript == Script(<<>>)

(***************************************************************************)
(* The heap.  A cell is one Python object:                                 *)
(*   Transaction     inputs, outputs, witnesses (addresses of lists),      *)
(*                   locktime, version (bytes), has_segwit                 *)
(*   list            items: addresses of TxInput / TxOutput /              *)
(*                   TxWitnessInput objects                                *)
(*   TxInput         txid (hex text), txout_index, script_sig, sequence    *)
(*   TxOutput        amount, script_pubkey                                 *)
(*   TxWitnessInput  stack (address of a list of hex texts)                *)
(*   strlist         items: hex texts (a witness stack)                    *)
(* Address 1 is the caller's transaction.                                  *)
(***************************************************************************)
Self == 1

TransactionCell(ins, outs, locktime, version, has_segwit, wits) ==
    [kind |-> "Transaction", inputs |-> ins, outputs |-> outs,
     has_segwit |-> has_segwit, witnesses |-> wits,
     locktime |-> locktime, version |-> version]

ListCell(items) == [kind |-> "list", items |-> items]

StackCell(items) == [kind |-> "strlist", items |-> items]

TxInputCell(txid, txout_index, script_sig, sequence) ==
    [kind |-> "TxInput", txid |-> txid, txout_index |-> txout_index,
     script_sig |-> script_sig, sequence |-> sequence]

TxOutputCell(amount, script_pubkey) ==
    [kind |-> "TxOutput", amount |-> amount, script_pubkey |-> script_pubkey]

TxWitnessInputCell(stack) == [kind |-> "TxWitnessInput", stack |-> stack]

\* The addresses a cell refers to.
Refs(c) ==
    IF c.kind = "Transaction" THEN {c.inputs, c.outputs, c.witnesses}
    ELSE IF c.kind = "list" THEN {c.items[i] : i \in 1..Len(c.items)}
    ELSE IF c.kind = "TxWitnessInput" THEN {c.stack}
    ELSE {}

RECURSIVE Reach(_, _)
Reach(h, S) ==
    LET T == S \cup UNION {Refs(h[a]) : a \in S}
    IN  IF T = S THEN S ELSE Reach(h, T)

\* When a call returns its locals die: the cells allocated by the call that
\* the caller's transaction does not reach are dropped.
Collect(h) ==
    LET R == Reach(h, {Self})
        top == CHOOSE a \in R : \A b \in R : b <= a
    IN  SubSeq(h, 1, top)

\* txin / txout / witness objects of a transaction, in list order.
InputsOf(h, a) == h[h[a].inputs].items

OutputsOf(h, a) == h[h[a].outputs].items

WitnessesOf(h, a) == h[h[a].witnesses].items

\* The transaction at address a as a value (no addresses).
TxValue(h, a) ==
    [version |-> h[a].version,
     locktime |-> h[a].locktime,
     has_segwit |-> h[a].has_segwit,
     inputs |-> [k \in 1..Len(InputsOf(h, a)) |->
                    LET o == h[InputsOf(h, a)[k]]
                    IN  [txid |-> o.txid, txout_index |-> o.txout_index,
                         script_sig |-> o.script_sig, sequence |-> o.sequence]],
     outputs |-> [k \in 1..Len(OutputsOf(h, a)) |->
                    LET o == h[OutputsOf(h, a)[k]]
                    IN  [amount |-> o.amount, script_pubkey |-> o.script_pubkey]],
     witnesses |-> [k \in 1..Len(WitnessesOf(h, a)) |->
                    h[h[WitnessesOf(h, a)[k]].stack].items]]

\* Transaction.__init__ and the constructors of its parts, called on the
\* value t: a heap holding exactly that transaction, at address Self.
NewTransaction(t) ==
    LET nI == Len(t.inputs)
        nO == Len(t.outputs)
        nW == Len(t.witnesses)
    IN  << TransactionCell(2, 3, t.locktime, t.version, t.has_segwit, 4),
           ListCell([k \in 1..nI |-> 4 + k]),
           ListCell([k \in 1..nO |-> 4 + nI + k]),
           ListCell([k \in 1..nW |-> 4 + nI + nO + k]) >>
        \o [k \in 1..nI |->
              TxInputCell(t.inputs[k].txid, t.inputs[k].txout_index,
                          t.inputs[k].script_sig, t.inputs[k].sequence)]
        \o [k \in 1..nO |->
              TxOutputCell(t.outputs[k].amount, t.outputs[k].script_pubkey)]
        \o [k \in 1..nW |-> TxWitnessInputCell(4 + nI + nO + nW + k)]
        \o [k \in 1..nW |-> StackCell(t.witnesses[k])]

(***************************************************************************)
(* copy() class methods (transactions.py:138-143, 178-182, 277-281,        *)
(* 548-555).  Each builds a new object from the fields of the old one; a   *)
(* field that is an address is shared.                                     *)
(***************************************************************************)
TxInput_copy(txin) ==
    TxInputCell(txin.txid, txin.txout_index, txin.script_sig, txin.sequence)

TxWitnessInput_copy(txwin) == TxWitnessInputCell(txwin.stack)

TxOutput_copy(txout) == TxOutputCell(txout.amount, txout.script_pubkey)

\* A clone that shares the TxInput and TxOutput objects with the original.
Transaction_copy_shared(h, a) ==
    LET n == Len(h)
    IN  [heap |-> h \o << ListCell(InputsOf(h, a)),
                          ListCell(OutputsOf(h, a)),
                          ListCell(WitnessesOf(h, a)),
                          TransactionCell(n + 1, n + 2, h[a].locktime,
                                          h[a].version, h[a].has_segwit, n + 3) >>,
         addr |-> n + 4]

\* Transaction.copy(tx): [heap, addr], the heap with the clone's cells
\* appended and the clone's address.
Transaction_copy(h, a) ==
    LET n  == Len(h)
        nI == Len(InputsOf(h, a))
        nO == Len(OutputsOf(h, a))
        nW == Len(WitnessesOf(h, a))
        ins  == [k \in 1..nI |-> TxInput_copy(h[InputsOf(h, a)[k]])]
        outs == [k \in 1..nO |-> TxOutput_copy(h[OutputsOf(h, a)[k]])]
        wits == [k \in 1..nW |-> TxWitnessInput_copy(h[WitnessesOf(h, a)[k]])]
        m  == n + nI + nO + nW
    IN  [heap |-> h \o ins \o outs \o wits
                   \o << ListCell([k \in 1..nI |-> n + k]),
                         ListCell([k \in 1..nO |-> n + nI + k]),
                         ListCell([k \in 1..nW |-> n + nI + nO + k]),
                         TransactionCell(m + 1, m + 2, h[a].locktime,
                                         h[a].version, h[a].has_segwit, m + 3) >>,
         addr |-> m + 4]

(***************************************************************************)
(* Serialisation (transactions.py:69-87, 168-176, 224-233, 933-961).       *)
(***************************************************************************)
TxInput_to_bytes(txin) ==
    LET txid_bytes == Reverse(unhexlify(txin.txid))
        txout_bytes == pack_unsigned(txin.txout_index, 4)
        script_sig_bytes == Script_to_bytes(txin.script_sig)
    IN  txid_bytes \o txout_bytes \o encode_varint(Len(script_sig_bytes))
            \o script_sig_bytes \o txin.sequence

TxOutput_to_bytes(txout) ==
    LET amount_bytes == pack_signed(txout.amount, 8)
        script_bytes == Script_to_bytes(txout.script_pubkey)
    IN  amount_bytes \o encode_varint(Len(script_bytes)) \o script_bytes

\* TxWitnessInput.to_bytes on the stack's items
TxWitnessInput_to_bytes(stack) ==
    Flatten([k \in 1..Len(stack) |-> prepend_varint(unhexlify(stack[k]))])

Transaction_to_bytes(h, a, has_segwit) ==
    LET ins == InputsOf(h, a)
        outs == OutputsOf(h, a)
        wits == WitnessesOf(h, a)
    IN  h[a].version
        \o (IF has_segwit THEN <<B(0), B(1)>> ELSE <<>>)
        \o encode_varint(Len(ins))
        \o Flatten([k \in 1..Len(ins) |-> TxInput_to_bytes(h[ins[k]])])
        \o encode_varint(Len(outs))
        \o Flatten([k \in 1..Len(outs) |-> TxOutput_to_bytes(h[outs[k]])])
        \o (IF has_segwit
            THEN Flatten([k \in 1..Len(wits) |->
                    LET stack == h[h[wits[k]].stack].items
                    IN  chr_encode(Len(stack)) \o TxWitnessInput_to_bytes(stack)])
            ELSE <<>>)
        \o h[a].locktime

(***************************************************************************)
(* More constants of bitcoinutils.constants, and the data the model draws  *)
(* the caller's transactions and the calls' arguments from.                *)
(***************************************************************************)
DEFAULT_TX_VERSION == Bytes(<<2, 0, 0, 0>>)

DEFAULT_TX_LOCKTIME == Zeros(4)

DEFAULT_TX_SEQUENCE == Bytes(<<255, 255, 255, 255>>)

EMPTY_TX_SEQUENCE == Zeros(4)

\* A 32-byte transaction id as hex text; no two of its bytes are equal.
TxidOf(k) == hexlify(Bytes([i \in 1..32 |-> 16 * k + i]))

\* ffffffff, feffffff (absolute timelock), fdffffff (replace by fee), ...
SequenceOf(k) == Bytes(<<256 - k, 255, 255, 255>>)

ScriptPubKeyOf(k) == Script(Bytes([i \in 1..(k + 1) |-> 80 + i]))

AmountOf(k) == 50000 * k

\* A scriptSig as a signer leaves it.
SigScript == Script(Bytes(<<2, 48, 1>>))

\* A witness stack as a signer leaves it: a signature and an empty item.
SignedStack == << <<3, 0, 4, 4>>, <<>> >>

Locktime == Bytes(<<64, 226, 1, 0>>)

\* The caller's transaction as first constructed.
InitialTx(nI, nO, seg) ==
    [version |-> DEFAULT_TX_VERSION,
     locktime |-> Locktime,
     has_segwit |-> seg,
     inputs |-> [k \in 1..nI |->
                    [txid |-> TxidOf(k), txout_index |-> k - 1,
                     script_sig |-> EmptyScript, sequence |-> SequenceOf(k)]],
     outputs |-> [k \in 1..nO |->
                    [amount |-> AmountOf(k), script_pubkey |-> ScriptPubKeyOf(k)]],
     witnesses |-> IF seg THEN [k \in 1..nI |-> SignedStack] ELSE <<>>]

ScriptCode == Script(Bytes(<<118, 169, 20, 136, 172>>))

TxinIndexes == 0..MaxInputs

\* DEFAULT, ALL, NONE, SINGLE, the three with ANYONECANPAY (0x80), and 0xC3.
Sighashes == {0, 1, 2, 3, 129, 130, 131, 195}

NoFrame ==
    [op |-> "none", tmp_tx |-> 0, txin_index |-> 0, script |-> EmptyScript,
     sighash |-> 0, amount |-> 0, script_pubkeys |-> <<>>, amounts |-> <<>>,
     ext_flag |-> 0, leaf_ver |-> 0]

\* The outcome of a call: status is "ok" or the exception raised; bytes is
\* the byte string the call produced (for a digest call: the bytes it hashes,
\* the digest returned being their hash); value is the transaction that
\* from_raw returns.
NoResult ==
    [op |-> "none", status |-> "none", bytes |-> <<>>, value |-> <<>>,
     args |-> NoFrame]

\* The end of a call: its outcome is recorded and its locals die.
Return(h, status, bytes) ==
    /\ pc' = "returned"
    /\ frame' = NoFrame
    /\ heap' = Collect(h)
    /\ result' = [op |-> frame.op, status |-> status, bytes |-> bytes,
                  value |-> <<>>, args |-> frame]

\* The caller takes the outcome of the call and goes on.
Resume ==
    /\ pc = "returned"
    /\ pc' = "idle"
    /\ result' = NoResult
    /\ UNCHANGED <<heap, frame>>

(***************************************************************************)
(* The caller signs an input: txin.script_sig is assigned                  *)
(* (the attribute of TxInput, transactions.py:60).                         *)
(***************************************************************************)
SetScriptSig(k) ==
    /\ pc = "idle"
    /\ k \in 1..Len(InputsOf(heap, Self))
    /\ heap[InputsOf(heap, Self)[k]].script_sig = EmptyScript
    /\ heap' = [heap EXCEPT ![InputsOf(heap, Self)[k]].script_sig = SigScript]
    /\ UNCHANGED <<pc, frame, result>>

(***************************************************************************)
(* Transaction.get_transaction_digest (transactions.py:558-657), one       *)
(* action per statement group; pc names the line the call is at.           *)
(***************************************************************************)
\* The loop of lines 585-586 left out.
ClearScriptSigs_skipped(h, tmp) == h

\* 585-586: make sure all input scriptSigs are empty
ClearScriptSigs(h, tmp) ==
    LET ins == {InputsOf(h, tmp)[k] : k \in 1..Len(InputsOf(h, tmp))}
    IN  [a \in DOMAIN h |->
            IF a \in ins THEN [h[a] EXCEPT !.script_sig = EmptyScript] ELSE h[a]]

\* Zeroes the sequence of every input, the signed one too.
ZeroOtherSequences_all(h, tmp, txin_index) ==
    LET ins == {InputsOf(h, tmp)[k] : k \in 1..Len(InputsOf(h, tmp))}
    IN  [a \in DOMAIN h |->
            IF a \in ins THEN [h[a] EXCEPT !.sequence = EMPTY_TX_SEQUENCE]
            ELSE h[a]]

\* 612-614 and 633-635: zero the sequence of the other inputs
ZeroOtherSequences(h, tmp, txin_index) ==
    LET ins == InputsOf(h, tmp)
        others == {ins[k] : k \in (1..Len(ins)) \ {txin_index + 1}}
    IN  [a \in DOMAIN h |->
            IF a \in others THEN [h[a] EXCEPT !.sequence = EMPTY_TX_SEQUENCE]
            ELSE h[a]]

\* 606-614: SIGHASH_NONE
SighashNone(h, tmp, txin_index) ==
    LET n == Len(h)
        h1 == [h \o <<ListCell(<<>>)>> EXCEPT ![tmp].outputs = n + 1]
    IN  ZeroOtherSequences(h1, tmp, txin_index)

\* 623-635: SIGHASH_SINGLE with txin_index < len(outputs)
SighashSingle(h, tmp, txin_index) ==
    LET n == Len(h)
        txout == OutputsOf(h, tmp)[txin_index + 1]
        blanks == [k \in 1..txin_index |->
                      TxOutputCell(NEGATIVE_SATOSHI, EmptyScript)]
        items == [k \in 1..txin_index |-> n + k] \o <<txout>>
        h1 == [h \o blanks \o <<ListCell(items)>>
                  EXCEPT ![tmp].outputs = n + txin_index + 1]
    IN  ZeroOtherSequences(h1, tmp, txin_index)

\* 638-641: SIGHASH_ANYONECANPAY
AnyoneCanPay(h, tmp, txin_index) ==
    LET n == Len(h)
    IN  [h \o <<ListCell(<<InputsOf(h, tmp)[txin_index + 1]>>)>>
            EXCEPT ![tmp].inputs = n + 1]

\* 644-652: the bytes that are double-hashed
LegacyPreimage(h, tmp, sighash) ==
    Transaction_to_bytes(h, tmp, FALSE) \o pack_signed(sighash, 4)

\* 606
LegacySighashNone(sighash) == BitAnd(sighash, 31) = SIGHASH_NONE

\* The test of line 616 without the mask.
LegacySighashSingle_unmasked(sighash) == sighash = SIGHASH_SINGLE

\* 616
LegacySighashSingle(sighash) == BitAnd(sighash, 31) = SIGHASH_SINGLE

get_transaction_digest(txin_index, script, sighash) ==
    /\ pc = "idle"
    /\ LET c == Transaction_copy(heap, Self)
       IN  /\ heap' = c.heap
           /\ frame' = [NoFrame EXCEPT !.op = "get_transaction_digest",
                                       !.tmp_tx = c.addr,
                                       !.txin_index = txin_index,
                                       !.script = script,
                                       !.sighash = sighash]
    /\ pc' = "L585"
    /\ UNCHANGED result

L585 ==
    /\ pc = "L585"
    /\ heap' = ClearScriptSigs(heap, frame.tmp_tx)
    /\ pc' = "L599"
    /\ UNCHANGED <<frame, result>>

L599 ==
    /\ pc = "L599"
    /\ IF frame.txin_index >= Len(InputsOf(heap, frame.tmp_tx))
       THEN Return(heap, "IndexError", <<>>)
       ELSE /\ heap' = [heap EXCEPT
                  ![InputsOf(heap, frame.tmp_tx)[frame.txin_index + 1]].script_sig =
                      frame.script]
            /\ pc' = "L606"
            /\ UNCHANGED <<frame, result>>

L606 ==
    /\ pc = "L606"
    /\ IF LegacySighashNone(frame.sighash)
       THEN /\ heap' = SighashNone(heap, frame.tmp_tx, frame.txin_index)
            /\ pc' = "L638"
            /\ UNCHANGED <<frame, result>>
       ELSE IF LegacySighashSingle(frame.sighash)
       THEN IF frame.txin_index >= Len(OutputsOf(heap, frame.tmp_tx))
            THEN Return(heap, "ValueError", <<>>)
            ELSE /\ heap' = SighashSingle(heap, frame.tmp_tx, frame.txin_index)
                 /\ pc' = "L638"
                 /\ UNCHANGED <<frame, result>>
       ELSE /\ pc' = "L638"
            /\ UNCHANGED <<heap, frame, result>>

L638 ==
    /\ pc = "L638"
    /\ heap' = IF BitAnd(frame.sighash, SIGHASH_ANYONECANPAY) # 0
               THEN AnyoneCanPay(heap, frame.tmp_tx, frame.txin_index)
               ELSE heap
    /\ pc' = "L644"
    /\ UNCHANGED <<frame, result>>

L644 ==
    /\ pc = "L644"
    /\ Return(heap, "ok", LegacyPreimage(heap, frame.tmp_tx, frame.sighash))

(***************************************************************************)
(* Transaction.get_transaction_segwit_digest (transactions.py:660-764).    *)
(***************************************************************************)
\* The outpoint with the index packed as 8 bytes.
Outpoint_8_bytes(txin) ==
    Reverse(unhexlify(txin.txid)) \o pack_unsigned(txin.txout_index, 8)

\* 706-707, 742-743, 840-841, 887-888: reversed txid and 4-byte index
Outpoint(txin) ==
    Reverse(unhexlify(txin.txid)) \o pack_unsigned(txin.txout_index, 4)

\* 721-723, 728-730: amount, one length byte, script
SegwitOutput(txout) ==
    LET script_bytes == Script_to_bytes(txout.script_pubkey)
    IN  pack_signed(txout.amount, 8) \o <<B(Len(script_bytes))>> \o script_bytes

\* 698
SegwitAnyoneCanPay(sighash) == BitAnd(sighash, 240) = SIGHASH_ANYONECANPAY

\* 697, 699
SegwitSignAll(sighash) ==
    /\ BitAnd(sighash, 31) # SIGHASH_SINGLE
    /\ BitAnd(sighash, 31) # SIGHASH_NONE

\* 692, 702-708
SegwitHashPrevouts(h, tmp, sighash) ==
    IF ~SegwitAnyoneCanPay(sighash)
    THEN sha256d(Flatten([k \in 1..Len(InputsOf(h, tmp)) |->
                             Outpoint(h[InputsOf(h, tmp)[k]])]))
    ELSE Zeros(32)

\* 693, 711-715
SegwitHashSequence(h, tmp, sighash) ==
    IF ~SegwitAnyoneCanPay(sighash) /\ SegwitSignAll(sighash)
    THEN sha256d(Flatten([k \in 1..Len(InputsOf(h, tmp)) |->
                             h[InputsOf(h, tmp)[k]].sequence]))
    ELSE Zeros(32)

\* As SegwitHashOutputs, but what is not signed is hashed as no bytes.
SegwitHashOutputs_hash_nothing(h, tmp, txin_index, sighash) ==
    LET outs == OutputsOf(h, tmp)
    IN  IF SegwitSignAll(sighash)
        THEN sha256d(Flatten([k \in 1..Len(outs) |-> SegwitOutput(h[outs[k]])]))
        ELSE IF BitAnd(sighash, 31) = SIGHASH_SINGLE /\ txin_index < Len(outs)
        THEN sha256d(SegwitOutput(h[outs[txin_index + 1]]))
        ELSE sha256d(<<>>)

\* 694, 717-731
SegwitHashOutputs(h, tmp, txin_index, sighash) ==
    LET outs == OutputsOf(h, tmp)
    IN  IF SegwitSignAll(sighash)
        THEN sha256d(Flatten([k \in 1..Len(outs) |-> SegwitOutput(h[outs[k]])]))
        ELSE IF BitAnd(sighash, 31) = SIGHASH_SINGLE /\ txin_index < Len(outs)
        THEN sha256d(SegwitOutput(h[outs[txin_index + 1]]))
        ELSE Zeros(32)

\* 734-762: the bytes that are double-hashed (txin_index < len(self.inputs))
SegwitPreimage(h, self, tmp, txin_index, script, amount, sighash) ==
    LET txin == h[InputsOf(h, self)[txin_index + 1]]
    IN  h[self].version
        \o SegwitHashPrevouts(h, tmp, sighash)
        \o SegwitHashSequence(h, tmp, sighash)
        \o Outpoint(txin)
        \o <<B(Len(Script_to_bytes(script)))>>
        \o Script_to_bytes(script)
        \o pack_signed(amount, 8)
        \o txin.sequence
        \o SegwitHashOutputs(h, tmp, txin_index, sighash)
        \o h[self].locktime
        \o pack_signed(sighash, 4)

get_transaction_segwit_digest(txin_index, script, amount, sighash) ==
    /\ pc = "idle"
    /\ LET c == Transaction_copy(heap, Self)
       IN  /\ heap' = c.heap
           /\ frame' = [NoFrame EXCEPT !.op = "get_transaction_segwit_digest",
                                       !.tmp_tx = c.addr,
                                       !.txin_index = txin_index,
                                       !.script = script,
                                       !.amount = amount,
                                       !.sighash = sighash]
    /\ pc' = "L691"
    /\ UNCHANGED result

\* 691-764; self.inputs[txin_index] (741) raises when out of range, and
\* struct.pack('B', n) (746) when the script code is longer than 255 bytes.
L691 ==
    /\ pc = "L691"
    /\ IF frame.txin_index >= Len(InputsOf(heap, Self))
       THEN Return(heap, "IndexError", <<>>)
       ELSE IF Len(Script_to_bytes(frame.script)) > 255
       THEN Return(heap, "struct.error", <<>>)
       ELSE Return(heap, "ok",
                   SegwitPreimage(heap, Self, frame.tmp_tx, frame.txin_index,
                                  frame.script, frame.amount, frame.sighash))

(***************************************************************************)
(* Transaction.get_transaction_taproot_digest (transactions.py:770-929).   *)
(***************************************************************************)
\* 811-813
TaprootSighashNone(sighash) == BitAnd(sighash, 3) = SIGHASH_NONE

\* The test of line 812 on the lowest bit alone.
TaprootSighashSingle_low_bit(sighash) == BitAnd(sighash, 1) = 1

TaprootSighashSingle(sighash) == BitAnd(sighash, 3) = SIGHASH_SINGLE

TaprootAnyoneCanPay(sighash) == BitAnd(sighash, 128) = SIGHASH_ANYONECANPAY

\* 853-855, 892-894: one length byte and the scriptPubKey
TaprootScriptPubKey(s) ==
    <<B(Len(Script_to_bytes(s)))>> \o Script_to_bytes(s)

\* 869-873, 908-911: amount, one length byte, script
TaprootOutput(txout) ==
    LET script_bytes == Script_to_bytes(txout.script_pubkey)
    IN  pack_unsigned(txout.amount, 8) \o <<B(Len(script_bytes))>> \o script_bytes

\* 836-863: data about the transaction
TaprootInputsData(h, tmp, script_pubkeys, amounts) ==
    LET ins == InputsOf(h, tmp)
    IN  sha256(Flatten([k \in 1..Len(ins) |-> Outpoint(h[ins[k]])]))
        \o sha256(Flatten([k \in 1..Len(amounts) |-> pack_unsigned(amounts[k], 8)]))
        \o sha256(Flatten([k \in 1..Len(script_pubkeys) |->
                              TaprootScriptPubKey(script_pubkeys[k])]))
        \o sha256(Flatten([k \in 1..Len(ins) |-> h[ins[k]].sequence]))

\* 866-875
TaprootOutputsData(h, tmp) ==
    LET outs == OutputsOf(h, tmp)
    IN  sha256(Flatten([k \in 1..Len(outs) |-> TaprootOutput(h[outs[k]])]))

\* The spend type without the doubling of ext_flag.
SpendType_not_doubled(ext_flag) == ext_flag + 0

\* 879
SpendType(ext_flag) == ext_flag * 2 + 0

\* 883-899: data about this input
TaprootThisInput(h, tmp, txin_index, script_pubkeys, amounts, sighash) ==
    IF TaprootAnyoneCanPay(sighash)
    THEN LET txin == h[InputsOf(h, tmp)[txin_index + 1]]
         IN  Outpoint(txin)
             \o pack_unsigned(amounts[txin_index + 1], 8)
             \o TaprootScriptPubKey(script_pubkeys[txin_index + 1])
             \o txin.sequence
    ELSE pack_unsigned(txin_index, 4)

\* 917: leaf_ver = LEAF_VERSION_TAPSCRIPT
TapLeafVersion(leaf_ver) == LEAF_VERSION_TAPSCRIPT

\* 914-926: the signature message extension of a script spend
TaprootExtension(script, leaf_ver) ==
    tagged_hash(<<B(TapLeafVersion(leaf_ver))>>
                    \o prepend_varint(Script_to_bytes(script)), "TapLeaf")
        \o <<B(0)>>
        \o Bytes(<<255, 255, 255, 255>>)

\* 816-926: the bytes that are tag-hashed
TaprootPreimage(h, self, tmp, a) ==
    <<B(0)>>
    \o <<B(a.sighash)>>
    \o h[self].version
    \o h[self].locktime
    \o (IF ~TaprootAnyoneCanPay(a.sighash)
        THEN TaprootInputsData(h, tmp, a.script_pubkeys, a.amounts) ELSE <<>>)
    \o (IF ~(TaprootSighashNone(a.sighash) \/ TaprootSighashSingle(a.sighash))
        THEN TaprootOutputsData(h, tmp) ELSE <<>>)
    \o <<B(SpendType(a.ext_flag))>>
    \o TaprootThisInput(h, tmp, a.txin_index, a.script_pubkeys, a.amounts, a.sighash)
    \o (IF TaprootSighashSingle(a.sighash)
        THEN sha256(TaprootOutput(h[OutputsOf(h, tmp)[a.txin_index + 1]])) ELSE <<>>)
    \o (IF a.ext_flag = 1 THEN TaprootExtension(a.script, a.leaf_ver) ELSE <<>>)

\* 885, 890, 892: tmp_tx.inputs[txin_index], amounts[txin_index] and
\* script_pubkeys[txin_index] raise IndexError when out of range
TaprootInputIndexError(h, tmp, a) ==
    /\ TaprootAnyoneCanPay(a.sighash)
    /\ \/ a.txin_index >= Len(InputsOf(h, tmp))
       \/ a.txin_index >= Len(a.amounts)
       \/ a.txin_index >= Len(a.script_pubkeys)

\* 907: tmp_tx.outputs[txin_index] raises IndexError when out of range
TaprootOutputIndexError(h, tmp, a) ==
    /\ TaprootSighashSingle(a.sighash)
    /\ a.txin_index >= Len(OutputsOf(h, tmp))

get_transaction_taproot_digest(txin_index, script_pubkeys, amounts, ext_flag, script, leaf_ver, sighash) ==
    /\ pc = "idle"
    /\ LET c == Transaction_copy(heap, Self)
       IN  /\ heap' = c.heap
           /\ frame' = [op |-> "get_transaction_taproot_digest",
                        tmp_tx |-> c.addr,
                        txin_index |-> txin_index,
                        script |-> script,
                        sighash |-> sighash,
                        amount |-> 0,
                        script_pubkeys |-> script_pubkeys,
                        amounts |-> amounts,
                        ext_flag |-> ext_flag,
                        leaf_ver |-> leaf_ver]
    /\ pc' = "L809"
    /\ UNCHANGED result

\* 809-929
L809 ==
    /\ pc = "L809"
    /\ IF TaprootInputIndexError(heap, frame.tmp_tx, frame)
       THEN Return(heap, "IndexError", <<>>)
       ELSE IF TaprootOutputIndexError(heap, frame.tmp_tx, frame)
       THEN Return(heap, "IndexError", <<>>)
       ELSE Return(heap, "ok", TaprootPreimage(heap, Self, frame.tmp_tx, frame))

(***************************************************************************)
(* The arguments the digest calls are made with.                           *)
(***************************************************************************)
\* A script code of the greatest length whose one-byte length is its varint.
LongScriptCode == Script(Bytes([i \in 1..252 |-> i]))

ScriptCodes == {ScriptCode, LongScriptCode}

SpentAmount == 600000

\* The outputs that the inputs spend: scriptPubKey and amount of prevout k.
PrevScriptOf(k) == Script(Bytes(<<81, 32, k, 7>>))

PrevAmountOf(k) == 100000 * k

\* The prevout lists of a taproot call on nI inputs: one entry per input,
\* amounts one short, or scriptPubKeys one long.
PrevoutLists(nI) ==
    { [script_pubkeys |-> [k \in 1..nS |-> PrevScriptOf(k)],
       amounts |-> [k \in 1..nA |-> PrevAmountOf(k)]] :
         <<nS, nA>> \in {<<nI, nI>>, <<nI, nI - 1>>, <<nI + 1, nI>>} }

TapScript == Script(Bytes(<<32, 5, 172>>))

\* Key path; script path with the tapscript leaf version 0xc0 and with 0xc2.
SpendPaths ==
    { [ext_flag |-> 0, script |-> EmptyScript, leaf_ver |-> LEAF_VERSION_TAPSCRIPT],
      [ext_flag |-> 1, script |-> TapScript, leaf_ver |-> LEAF_VERSION_TAPSCRIPT],
      [ext_flag |-> 1, script |-> TapScript, leaf_ver |-> 194] }

(***************************************************************************)
(* The specification of the digest engines.                                *)
(***************************************************************************)
Init ==
    /\ \E nI \in 1..MaxInputs, nO \in 1..MaxOutputs, seg \in BOOLEAN :
          heap = NewTransaction(InitialTx(nI, nO, seg))
    /\ pc = "idle"
    /\ frame = NoFrame
    /\ result = NoResult

Next ==
    \/ \E k \in 1..MaxInputs : SetScriptSig(k)
    \/ \E i \in TxinIndexes, sh \in Sighashes : get_transaction_digest(i, ScriptCode, sh)
    \/ \E i \in TxinIndexes, sc \in ScriptCodes, sh \in Sighashes :
          get_transaction_segwit_digest(i, sc, SpentAmount, sh)
    \/ \E i \in TxinIndexes, sh \in Sighashes, sp \in SpendPaths,
          pl \in PrevoutLists(Len(InputsOf(heap, Self))) :
          get_transaction_taproot_digest(i, pl.script_pubkeys, pl.amounts,
                                         sp.ext_flag, sp.script, sp.leaf_ver, sh)
    \/ L585
    \/ L599
    \/ L606
    \/ L638
    \/ L644
    \/ L691
    \/ L809
    \/ Resume

Spec == Init /\ [][Next]_vars

(***************************************************************************)
(* Parsing (transactions.py:101-135, 236-263, 460-530).  A parser result   *)
(* carries err: TRUE when the Python code raises.                          *)
(***************************************************************************)
TxInput_from_raw(raw, cursor, has_segwit) ==
    LET inp_hash == Reverse(Slice(raw, cursor, cursor + 32))
        output_n == Reverse(Slice(raw, cursor + 32, cursor + 36))
        c1 == cursor + 36
        vi == vi_to_int(Slice(raw, c1, c1 + 9))
        c2 == c1 + vi.size
        unlocking_script == Slice(raw, c2, c2 + vi.value)
        c3 == c2 + vi.value
        sequence_number == Slice(raw, c3, c3 + 4)
    IN  \* 120-121 raise on no hash, vi_to_int on no byte, int('', 16) at 134
        IF inp_hash = <<>> \/ vi.err \/ output_n = <<>>
        THEN [err |-> TRUE, txin |-> <<>>, cursor |-> cursor]
        ELSE [err |-> FALSE,
              txin |-> [txid |-> hexlify(inp_hash),
                        txout_index |-> from_bytes_big(output_n),
                        script_sig |-> Script_from_raw(unlocking_script),
                        sequence |-> sequence_number],
              cursor |-> c3 + 4]

TxOutput_from_raw(raw, cursor, has_segwit) ==
    LET value == from_bytes_big(Reverse(Slice(raw, cursor, cursor + 8)))
        c1 == cursor + 8
        vi == vi_to_int(Slice(raw, c1, c1 + 9))
        c2 == c1 + vi.size
        lock_script == Slice(raw, c2, c2 + vi.value)
    IN  IF vi.err
        THEN [err |-> TRUE, txout |-> <<>>, cursor |-> cursor]
        ELSE [err |-> FALSE,
              txout |-> [amount |-> value,
                         script_pubkey |-> Script_from_raw(lock_script)],
              cursor |-> c2 + vi.value]

\* In the readers below a value that later steps depend on is bound by a
\* set constructor over a singleton, {e(x) : x \in {v}}: x is then the value
\* of v, computed once, as the Python variable holds it.

\* 495-497: read n inputs from the cursor on
RECURSIVE ReadInputs(_, _, _, _, _)
ReadInputs(raw, cursor, n, has_segwit, inputs) ==
    IF n = 0 THEN [err |-> FALSE, items |-> inputs, cursor |-> cursor]
    ELSE CHOOSE out \in
           { IF r.err THEN [err |-> TRUE, items |-> inputs, cursor |-> r.cursor]
             ELSE ReadInputs(raw, r.cursor, n - 1, has_segwit, Append(inputs, r.txin)) :
               r \in {TxInput_from_raw(raw, cursor, has_segwit)} } : TRUE

\* 507-509: read n outputs from the cursor on
RECURSIVE ReadOutputs(_, _, _, _, _)
ReadOutputs(raw, cursor, n, has_segwit, outputs) ==
    IF n = 0 THEN [err |-> FALSE, items |-> outputs, cursor |-> cursor]
    ELSE CHOOSE out \in
           { IF r.err THEN [err |-> TRUE, items |-> outputs, cursor |-> r.cursor]
             ELSE ReadOutputs(raw, r.cursor, n - 1, has_segwit, Append(outputs, r.txout)) :
               r \in {TxOutput_from_raw(raw, cursor, has_segwit)} } : TRUE

\* 519-524: one item of a witness stack: [err, witness, cursor]
ReadWitnessItem(raw, cursor) ==
    LET vi == vi_to_int(Slice(raw, cursor, cursor + 9))
        witness == IF vi.value # 0
                   THEN Slice(raw, cursor + vi.size, cursor + vi.value + vi.size)
                   ELSE <<B(0)>>
    IN  IF vi.err THEN [err |-> TRUE, witness |-> <<>>, cursor |-> cursor]
        ELSE [err |-> FALSE, witness |-> hexlify(witness),
              cursor |-> cursor + vi.value + vi.size]

\* 518-524: read the n items of a witness stack
RECURSIVE ReadWitnessItems(_, _, _, _)
ReadWitnessItems(raw, cursor, n, witnesses_tmp) ==
    IF n = 0 THEN [err |-> FALSE, items |-> witnesses_tmp, cursor |-> cursor]
    ELSE CHOOSE out \in
           { IF r.err THEN [err |-> TRUE, items |-> witnesses_tmp, cursor |-> r.cursor]
             ELSE ReadWitnessItems(raw, r.cursor, n - 1,
                                   Append(witnesses_tmp, r.witness)) :
               r \in {ReadWitnessItem(raw, cursor)} } : TRUE

\* 515-525: the witness stack of one input: [err, items, cursor]
ReadWitness(raw, cursor) ==
    LET vi == vi_to_int(Slice(raw, cursor, cursor + 9))
    IN  IF vi.err THEN [err |-> TRUE, items |-> <<>>, cursor |-> cursor]
        ELSE ReadWitnessItems(raw, cursor + vi.size, vi.value, <<>>)

\* 514-525: read the witness stacks of n inputs
RECURSIVE ReadWitnesses(_, _, _, _)
ReadWitnesses(raw, cursor, n, witnesses) ==
    IF n = 0 THEN [err |-> FALSE, items |-> witnesses, cursor |-> cursor]
    ELSE CHOOSE out \in
           { IF r.err THEN [err |-> TRUE, items |-> witnesses, cursor |-> r.cursor]
             ELSE ReadWitnesses(raw, r.cursor, n - 1, Append(witnesses, r.items)) :
               r \in {ReadWitness(raw, cursor)} } : TRUE

\* 478-485: has_segwit and the cursor after the version and the marker
SegwitMarker(rawtx) ==
    LET marker == Slice(rawtx, 4, 5) = <<B(0)>>
        flag == Slice(rawtx, 5, 6)
    IN  [has_segwit |-> marker /\ flag = <<B(1)>>,
         cursor |-> IF marker THEN 4 + 2 ELSE 4]

\* 490-497: the inputs, read from the cursor on: [err, items, cursor]
ReadAllInputs(rawtx, cursor, has_segwit) ==
    LET vi == vi_to_int(Slice(rawtx, cursor, cursor + 9))
    IN  IF vi.err THEN [err |-> TRUE, items |-> <<>>, cursor |-> cursor]
        ELSE ReadInputs(rawtx, cursor + vi.size, vi.value, has_segwit, <<>>)

\* 499-509: the outputs, read from the cursor on: [err, items, cursor]
ReadAllOutputs(rawtx, cursor, has_segwit) ==
    LET vi == vi_to_int(Slice(rawtx, cursor, cursor + 9))
    IN  IF vi.err THEN [err |-> TRUE, items |-> <<>>, cursor |-> cursor]
        ELSE ReadOutputs(rawtx, cursor + vi.size, vi.value, has_segwit, <<>>)

\* Transaction.from_raw(rawtx): [err, tx], tx the transaction returned, as a
\* value.  The constructor call of 527-530 passes neither locktime nor
\* version, which take their defaults (434-435).
Transaction_from_raw(rawtx) ==
    CHOOSE out \in
      { IF ins.err THEN [err |-> TRUE, tx |-> <<>>]
        ELSE CHOOSE out2 \in
          { IF outs.err THEN [err |-> TRUE, tx |-> <<>>]
            ELSE CHOOSE out3 \in
              { IF wits.err THEN [err |-> TRUE, tx |-> <<>>]
                ELSE [err |-> FALSE,
                      tx |-> [version |-> DEFAULT_TX_VERSION,
                              locktime |-> DEFAULT_TX_LOCKTIME,
                              has_segwit |-> m.has_segwit,
                              inputs |-> ins.items,
                              outputs |-> outs.items,
                              witnesses |-> wits.items]] :
                  wits \in { IF m.has_segwit
                             THEN ReadWitnesses(rawtx, outs.cursor, Len(ins.items), <<>>)
                             ELSE [err |-> FALSE, items |-> <<>>,
                                   cursor |-> outs.cursor] } } : TRUE :
              outs \in {ReadAllOutputs(rawtx, ins.cursor, m.has_segwit)} } : TRUE :
          m \in {SegwitMarker(rawtx)},
          ins \in {ReadAllInputs(rawtx, SegwitMarker(rawtx).cursor,
                                 SegwitMarker(rawtx).has_segwit)} } : TRUE

(***************************************************************************)
(* The specification of the wire format: the caller builds a transaction,  *)
(* serialises it with to_bytes(self.has_segwit) and parses the bytes back  *)
(* with Transaction.from_raw.                                              *)
(***************************************************************************)
Versions == {DEFAULT_TX_VERSION, Bytes(<<1, 0, 0, 0>>)}

Locktimes == {DEFAULT_TX_LOCKTIME, Locktime}

\* Witness stacks: empty, one item, an item and an empty item.
WitnessStacks == {<<>>, << <<3, 0, 4, 4>> >>, SignedStack}

WireTx(nI, nO, seg, version, locktime, stack) ==
    [InitialTx(nI, nO, seg) EXCEPT
        !.version = version,
        !.locktime = locktime,
        !.witnesses = IF seg THEN [k \in 1..nI |-> stack] ELSE <<>>]

WireInit ==
    /\ \E nI \in 0..MaxInputs, nO \in 1..MaxOutputs, seg \in BOOLEAN,
          version \in Versions, locktime \in Locktimes, stack \in WitnessStacks :
          /\ ~seg => stack = <<>>
          /\ heap = NewTransaction(WireTx(nI, nO, seg, version, locktime, stack))
    /\ pc = "idle"
    /\ frame = NoFrame
    /\ result = NoResult

\* self.to_bytes(self.has_segwit), as get_hash, get_size and to_hex call it
to_bytes ==
    /\ pc = "idle"
    /\ pc' = "returned"
    /\ result' = [NoResult EXCEPT
                    !.op = "to_bytes",
                    !.status = "ok",
                    !.bytes = Transaction_to_bytes(heap, Self, heap[Self].has_segwit)]
    /\ UNCHANGED <<heap, frame>>

\* Transaction.from_raw on the bytes just serialised
from_raw ==
    /\ pc = "returned"
    /\ result.op = "to_bytes"
    /\ LET r == Transaction_from_raw(result.bytes)
       IN  result' = [result EXCEPT
                        !.op = "from_raw",
                        !.status = IF r.err THEN "Exception" ELSE "ok",
                        !.value = r.tx]
    /\ UNCHANGED <<heap, pc, frame>>

\* The most bytes cut off the end of a serialisation: the locktime, the
\* outputs and the sequence of the last input of a small transaction.
MaxCut == 20

\* Transaction.from_raw on the bytes just serialised less their last n bytes
from_raw_truncated(n) ==
    /\ pc = "returned"
    /\ result.op = "to_bytes"
    /\ n <= Len(result.bytes)
    /\ LET p == SubSeq(result.bytes, 1, Len(result.bytes) - n)
           r == Transaction_from_raw(p)
       IN  result' = [result EXCEPT
                        !.op = "from_raw_truncated",
                        !.status = IF r.err THEN "Exception" ELSE "ok",
                        !.bytes = p,
                        !.value = r.tx]
    /\ UNCHANGED <<heap, pc, frame>>

WireNext ==
    \/ \E k \in 1..MaxInputs : SetScriptSig(k)
    \/ to_bytes
    \/ from_raw
    \/ \E n \in 1..MaxCut : from_raw_truncated(n)
    \/ Resume

SpecWire == WireInit /\ [][WireNext]_vars

(***************************************************************************)
(* Identifiers and sizes (transactions.py:964-1024).                       *)
(***************************************************************************)
\* The bytes get_txid hashes, with the witnesses serialised as well.
TxidData_with_witnesses(h, a) == Transaction_to_bytes(h, a, h[a].has_segwit)

\* 967: the bytes get_txid double-hashes
TxidData(h, a) == Transaction_to_bytes(h, a, FALSE)

\* 982: the bytes get_hash, and get_wtxid through it, double-hashes
HashData(h, a) == Transaction_to_bytes(h, a, h[a].has_segwit)

\* 991
Transaction_get_size(h, a) == Len(Transaction_to_bytes(h, a, h[a].has_segwit))

\* 1010-1019: the length of the witnesses as get_vsize serialises them
WitSize(h, a) ==
    LET wits == WitnessesOf(h, a)
    IN  Len(Flatten([k \in 1..Len(wits) |->
                LET stack == h[h[wits[k]].stack].items
                IN  chr_encode(Len(stack)) \o TxWitnessInput_to_bytes(stack)]))

\* get_vsize with the quarter of the witness bytes rounded down.
Transaction_get_vsize_floor(h, a) ==
    IF ~h[a].has_segwit THEN Transaction_get_size(h, a)
    ELSE LET marker_size == 2
             wit_size == WitSize(h, a)
             size == Transaction_get_size(h, a) - (marker_size + wit_size)
         IN  size + ((marker_size + wit_size) \div 4)

\* 1005-1024: size is an int, so math.ceil(size + x / 4) is size + ceil(x / 4)
Transaction_get_vsize(h, a) ==
    IF ~h[a].has_segwit THEN Transaction_get_size(h, a)
    ELSE LET marker_size == 2
             wit_size == WitSize(h, a)
             size == Transaction_get_size(h, a) - (marker_size + wit_size)
         IN  size + ((marker_size + wit_size + 3) \div 4)

(***************************************************************************)
(* The specification of the witnesses: the caller builds a transaction,    *)
(* attaches, replaces and detaches witnesses, and asks for the bytes, the  *)
(* identifiers and the sizes.                                              *)
(***************************************************************************)
\* A witness stack of 128 empty items.
DeepStack == [i \in 1..128 |-> <<>>]

\* The stacks the caller attaches, and the items it puts in them.
AttachedStacks == {<<>>, << <<3, 0, 4, 4>> >>, SignedStack, DeepStack}

StackItems == {<<3, 0, 4, 4>>, <<3, 0, 4, 5>>}

WitnessInit ==
    /\ \E nI \in 1..MaxInputs, nO \in 1..MaxOutputs, seg \in BOOLEAN :
          heap = NewTransaction([InitialTx(nI, nO, seg) EXCEPT !.witnesses = <<>>])
    /\ pc = "idle"
    /\ frame = NoFrame
    /\ result = NoResult

\* tx.witnesses.append(TxWitnessInput(stack))
AppendWitness(stack) ==
    /\ pc = "idle"
    /\ Len(WitnessesOf(heap, Self)) < MaxInputs
    /\ LET n == Len(heap)
       IN  heap' = [heap \o <<StackCell(stack), TxWitnessInputCell(n + 1)>>
                      EXCEPT ![heap[Self].witnesses].items = Append(@, n + 2)]
    /\ UNCHANGED <<pc, frame, result>>

\* tx.witnesses.pop()
RemoveWitness ==
    /\ pc = "idle"
    /\ Len(WitnessesOf(heap, Self)) > 0
    /\ heap' = Collect([heap EXCEPT ![heap[Self].witnesses].items =
                                        SubSeq(@, 1, Len(@) - 1)])
    /\ UNCHANGED <<pc, frame, result>>

\* tx.witnesses[k - 1].stack[0] = item
SetStackItem(k, item) ==
    /\ pc = "idle"
    /\ k \in 1..Len(WitnessesOf(heap, Self))
    /\ LET stack == heap[WitnessesOf(heap, Self)[k]].stack
       IN  /\ heap[stack].items # <<>>
           /\ heap[stack].items[1] # item
           /\ heap' = [heap EXCEPT ![stack].items[1] = item]
    /\ UNCHANGED <<pc, frame, result>>

\* hashlib.sha256(hashlib.sha256(data).digest()).digest() of data: the
\* outcome holds the bytes hashed.
get_txid ==
    /\ pc = "idle"
    /\ pc' = "returned"
    /\ result' = [NoResult EXCEPT !.op = "get_txid", !.status = "ok",
                                  !.bytes = TxidData(heap, Self)]
    /\ UNCHANGED <<heap, frame>>

get_hash ==
    /\ pc = "idle"
    /\ pc' = "returned"
    /\ result' = [NoResult EXCEPT !.op = "get_hash", !.status = "ok",
                                  !.bytes = HashData(heap, Self)]
    /\ UNCHANGED <<heap, frame>>

get_size ==
    /\ pc = "idle"
    /\ pc' = "returned"
    /\ result' = [NoResult EXCEPT !.op = "get_size", !.status = "ok",
                                  !.value = Transaction_get_size(heap, Self)]
    /\ UNCHANGED <<heap, frame>>

get_vsize ==
    /\ pc = "idle"
    /\ pc' = "returned"
    /\ result' = [NoResult EXCEPT !.op = "get_vsize", !.status = "ok",
                                  !.value = Transaction_get_vsize(heap, Self)]
    /\ UNCHANGED <<heap, frame>>

WitnessNext ==
    \/ \E stack \in AttachedStacks : AppendWitness(stack)
    \/ RemoveWitness
    \/ \E k \in 1..MaxInputs, item \in StackItems : SetStackItem(k, item)
    \/ to_bytes
    \/ get_txid
    \/ get_hash
    \/ get_size
    \/ get_vsize
    \/ Resume

SpecWitness == WitnessInit /\ [][WitnessNext]_vars

(***************************************************************************)
(* Sequence (transactions.py:284-352).                                     *)
(***************************************************************************)
TYPE_ABSOLUTE_TIMELOCK == "TYPE_ABSOLUTE_TIMELOCK"

TYPE_RELATIVE_TIMELOCK == "TYPE_RELATIVE_TIMELOCK"

TYPE_REPLACE_BY_FEE == "TYPE_REPLACE_BY_FEE"

ABSOLUTE_TIMELOCK_SEQUENCE == Bytes(<<254, 255, 255, 255>>)

REPLACE_BY_FEE_SEQUENCE == Bytes(<<253, 255, 255, 255>>)

\* 315-316: Sequence.__init__ raises ValueError
Sequence_init_raises(seq_type, value) ==
    seq_type = TYPE_RELATIVE_TIMELOCK /\ (value < 1 \/ value > 65535)

\* for_input_sequence setting bit 23 for the time units.
Sequence_for_input_sequence_bit_23(self) ==
    IF self.seq_type = TYPE_ABSOLUTE_TIMELOCK THEN ABSOLUTE_TIMELOCK_SEQUENCE
    ELSE IF self.seq_type = TYPE_REPLACE_BY_FEE THEN REPLACE_BY_FEE_SEQUENCE
    ELSE pack_unsigned(BitOr(IF ~self.is_type_block THEN 2^23 ELSE 0, self.value), 4)

\* 319-337: Sequence.for_input_sequence
Sequence_for_input_sequence(self) ==
    IF self.seq_type = TYPE_ABSOLUTE_TIMELOCK THEN ABSOLUTE_TIMELOCK_SEQUENCE
    ELSE IF self.seq_type = TYPE_REPLACE_BY_FEE THEN REPLACE_BY_FEE_SEQUENCE
    ELSE pack_unsigned(BitOr(IF ~self.is_type_block THEN 2^22 ELSE 0, self.value), 4)

(***************************************************************************)
(* The specification of the sequence encoder: the caller constructs a      *)
(* Sequence and asks for its bytes.  The outcome holds the object in       *)
(* value; no object is kept on the heap.                                   *)
(***************************************************************************)
SequenceTypes == {TYPE_ABSOLUTE_TIMELOCK, TYPE_RELATIVE_TIMELOCK, TYPE_REPLACE_BY_FEE}

\* The values around the ends of the range, around the byte and bit
\* boundaries, and the flag of the time units itself.
SequenceValues ==
    {-1, 0, 1, 2, 127, 128, 255, 256, 257, 4095, 32767, 32768,
     65534, 65535, 65536, 65537, 4194304, 4194305}

SequenceInit ==
    /\ heap = <<>>
    /\ pc = "idle"
    /\ frame = NoFrame
    /\ result = NoResult

\* Sequence(seq_type, value, is_type_block)
Sequence(seq_type, value, is_type_block) ==
    /\ pc = "idle"
    /\ pc' = "returned"
    /\ result' = [NoResult EXCEPT
                    !.op = "Sequence",
                    !.status = IF Sequence_init_raises(seq_type, value)
                               THEN "ValueError" ELSE "ok",
                    !.value = [seq_type |-> seq_type, value |-> value,
                               is_type_block |-> is_type_block]]
    /\ UNCHANGED <<heap, frame>>

\* seq.for_input_sequence() on the Sequence just constructed
for_input_sequence ==
    /\ pc = "returned"
    /\ result.op = "Sequence"
    /\ result.status = "ok"
    /\ result' = [result EXCEPT !.op = "for_input_sequence",
                                !.bytes = Sequence_for_input_sequence(result.value)]
    /\ UNCHANGED <<heap, pc, frame>>

SequenceNext ==
    \/ \E seq_type \in SequenceTypes, value \in SequenceValues,
          is_type_block \in BOOLEAN : Sequence(seq_type, value, is_type_block)
    \/ for_input_sequence
    \/ Resume

SpecSequence == SequenceInit /\ [][SequenceNext]_vars

(***************************************************************************)
(* The specification of the clone: the caller builds a transaction t,      *)
(* takes c = Transaction.copy(t) and then changes t and c through their    *)
(* attributes.  The outcome of copy holds the address of c in value.       *)
(***************************************************************************)
CopyInit ==
    /\ \E nI \in 1..MaxInputs, nO \in 1..MaxOutputs, seg \in BOOLEAN :
          heap = NewTransaction(InitialTx(nI, nO, seg))
    /\ pc = "idle"
    /\ frame = NoFrame
    /\ result = NoResult

\* c = Transaction.copy(t)
copy ==
    /\ pc = "idle"
    /\ LET c == Transaction_copy(heap, Self)
       IN  /\ heap' = c.heap
           /\ result' = [NoResult EXCEPT !.op = "copy", !.status = "ok",
                                         !.value = c.addr]
    /\ pc' = "returned"
    /\ UNCHANGED frame

\* The caller holds t and c, and has made no or one change so far.
Holding(a) ==
    /\ pc \in {"returned", "changed"}
    /\ result.op = "copy"
    /\ a \in {Self, result.value}

\* The caller's position after one more change.
Changed == IF pc = "returned" THEN "changed" ELSE "changed again"

\* a.inputs[0] = TxInput(txid, 0)
ReplaceInput(a) ==
    /\ Holding(a)
    /\ heap[InputsOf(heap, a)[1]].txid # TxidOf(3)
    /\ heap' = [heap \o <<TxInputCell(TxidOf(3), 0, EmptyScript, DEFAULT_TX_SEQUENCE)>>
                  EXCEPT ![heap[a].inputs].items[1] = Len(heap) + 1]
    /\ pc' = Changed
    /\ UNCHANGED <<frame, result>>

\* a.outputs.append(TxOutput(amount, script_pubkey))
AppendOutput(a) ==
    /\ Holding(a)
    /\ Len(OutputsOf(heap, a)) <= MaxOutputs
    /\ heap' = [heap \o <<TxOutputCell(AmountOf(3), ScriptPubKeyOf(3))>>
                  EXCEPT ![heap[a].outputs].items = Append(@, Len(heap) + 1)]
    /\ pc' = Changed
    /\ UNCHANGED <<frame, result>>

\* a.inputs[0].script_sig = sig
AssignScriptSig(a) ==
    /\ Holding(a)
    /\ heap[InputsOf(heap, a)[1]].script_sig # SigScript
    /\ heap' = [heap EXCEPT ![InputsOf(heap, a)[1]].script_sig = SigScript]
    /\ pc' = Changed
    /\ UNCHANGED <<frame, result>>

\* a.inputs[0].sequence = sequence
AssignSequence(a) ==
    /\ Holding(a)
    /\ heap[InputsOf(heap, a)[1]].sequence # EMPTY_TX_SEQUENCE
    /\ heap' = [heap EXCEPT ![InputsOf(heap, a)[1]].sequence = EMPTY_TX_SEQUENCE]
    /\ pc' = Changed
    /\ UNCHANGED <<frame, result>>

\* a.outputs[0].amount = amount
AssignAmount(a) ==
    /\ Holding(a)
    /\ heap[OutputsOf(heap, a)[1]].amount # AmountOf(4)
    /\ heap' = [heap EXCEPT ![OutputsOf(heap, a)[1]].amount = AmountOf(4)]
    /\ pc' = Changed
    /\ UNCHANGED <<frame, result>>

\* The stack of the first witness of the transaction at a.
FirstStack(a) == heap[WitnessesOf(heap, a)[1]].stack

\* a.witnesses[0].stack.append(item)
StackAppend(a) ==
    /\ Holding(a)
    /\ WitnessesOf(heap, a) # <<>>
    /\ Len(heap[FirstStack(a)].items) <= Len(SignedStack)
    /\ heap' = [heap EXCEPT ![FirstStack(a)].items = Append(@, <<3, 0, 4, 5>>)]
    /\ pc' = Changed
    /\ UNCHANGED <<frame, result>>

\* a.witnesses[0].stack.pop()
StackPop(a) ==
    /\ Holding(a)
    /\ WitnessesOf(heap, a) # <<>>
    /\ heap[FirstStack(a)].items # <<>>
    /\ heap' = [heap EXCEPT ![FirstStack(a)].items = SubSeq(@, 1, Len(@) - 1)]
    /\ pc' = Changed
    /\ UNCHANGED <<frame, result>>

\* a.witnesses[0].stack[0] = item
StackAssign(a) ==
    /\ Holding(a)
    /\ WitnessesOf(heap, a) # <<>>
    /\ heap[FirstStack(a)].items # <<>>
    /\ heap[FirstStack(a)].items[1] # <<3, 0, 4, 5>>
    /\ heap' = [heap EXCEPT ![FirstStack(a)].items[1] = <<3, 0, 4, 5>>]
    /\ pc' = Changed
    /\ UNCHANGED <<frame, result>>

CopyNext ==
    \/ copy
    \/ \E a \in DOMAIN heap : ReplaceInput(a)
    \/ \E a \in DOMAIN heap : AppendOutput(a)
    \/ \E a \in DOMAIN heap : AssignScriptSig(a)
    \/ \E a \in DOMAIN heap : AssignSequence(a)
    \/ \E a \in DOMAIN heap : AssignAmount(a)
    \/ \E a \in DOMAIN heap : StackAppend(a)
    \/ \E a \in DOMAIN heap : StackPop(a)
    \/ \E a \in DOMAIN heap : StackAssign(a)

SpecCopy == CopyInit /\ [][CopyNext]_vars

(***************************************************************************)
(* Properties of the digest engines.                                       *)
(***************************************************************************)
\* The caller's transaction, as a value.
Caller == TxValue(heap, Self)

Returned(op) == pc = "returned" /\ result.op = op

\* The cells of the caller's transaction, by address.
CallerCells(h) == [a \in Reach(h, {Self}) |-> h[a]]

\* ALL, NONE, SINGLE, with and without ANYONECANPAY.
StandardSighashes == {1, 2, 3, 129, 130, 131}

\* The transaction that a legacy signature with sighash sh on input i
\* (0-based) with script code s commits to, as C1 describes it.
C1_Committed(t, i, s, sh) ==
    LET base == IF sh >= 128 THEN sh - 128 ELSE sh
        ins == [j \in 1..Len(t.inputs) |->
                  [t.inputs[j] EXCEPT
                     !.script_sig = IF j = i + 1 THEN s ELSE EmptyScript,
                     !.sequence = IF base \in {2, 3} /\ j # i + 1
                                  THEN Bytes(<<0, 0, 0, 0>>) ELSE @]]
        outs == IF base = 2 THEN <<>>
                ELSE IF base = 3
                THEN [k \in 1..(i + 1) |->
                        IF k <= i THEN [amount |-> -1, script_pubkey |-> EmptyScript]
                        ELSE t.outputs[i + 1]]
                ELSE t.outputs
    IN  [t EXCEPT !.inputs = IF sh >= 128 THEN <<ins[i + 1]>> ELSE ins,
                  !.outputs = outs]

\* C1: whenever get_transaction_digest has returned from a call with an input
\* index i < len(inputs) and a sighash among ALL, NONE, SINGLE with or without
\* ANYONECANPAY (and i < len(outputs) for SINGLE), the bytes it double-hashed
\* are the serialisation without witness of the transaction C1 describes
\* (script_sigs emptied but for input i, which holds the script code; outputs
\* dropped for NONE; i placeholders (-1, empty) and output i for SINGLE; other
\* inputs' sequences zeroed for NONE and SINGLE; input i alone for
\* ANYONECANPAY), followed by the sighash as 4 bytes little-endian.
C1_LegacyPreimage ==
    ( /\ Returned("get_transaction_digest")
      /\ result.args.sighash \in StandardSighashes
      /\ result.args.txin_index < Len(Caller.inputs)
      /\ (result.args.sighash % 128 = 3 =>
             result.args.txin_index < Len(Caller.outputs)) )
    => /\ result.status = "ok"
       /\ result.bytes =
            Transaction_to_bytes(
                NewTransaction(C1_Committed(Caller, result.args.txin_index,
                                            result.args.script, result.args.sighash)),
                Self, FALSE)
            \o <<B(result.args.sighash), B(0), B(0), B(0)>>

\* A SINGLE|ANYONECANPAY digest for the second of two inputs, both signed.
C1_Witness ==
    /\ Returned("get_transaction_digest")
    /\ result.status = "ok"
    /\ result.args.sighash = 131
    /\ result.args.txin_index = 1
    /\ Len(Caller.inputs) = 2
    /\ Len(Caller.outputs) = 2
    /\ \A k \in 1..2 : Caller.inputs[k].script_sig = SigScript

\* C4: no step of a digest call (the first, which clones, the intermediate
\* ones, the one that returns or raises) changes a cell of the caller's
\* transaction: its fields, its lists, its inputs, outputs and witnesses.
C4_CallerNotMutated ==
    [][pc' # "idle" => CallerCells(heap') = CallerCells(heap)]_vars

\* A legacy NONE|ANYONECANPAY call about to serialise its clone, which by
\* then has lost its outputs, one input and a scriptSig the caller had set.
C4_Witness ==
    /\ pc = "L644"
    /\ frame.sighash = 130
    /\ Len(Caller.inputs) = 2
    /\ Len(Caller.outputs) = 2
    /\ Caller.inputs[1].script_sig = SigScript
    /\ TxValue(heap, frame.tmp_tx).outputs = <<>>
    /\ Len(TxValue(heap, frame.tmp_tx).inputs) = 1

\* C6: get_transaction_digest called with a sighash whose base type
\* (sighash & 0x1f) is SINGLE and an input index i >= len(outputs) ends in an
\* error and produces no bytes to hash.
C6_LegacySingleOutOfRange ==
    ( /\ Returned("get_transaction_digest")
      /\ result.args.sighash % 32 = 3
      /\ result.args.txin_index >= Len(Caller.outputs) )
    => /\ result.status \in {"ValueError", "IndexError"}
       /\ result.bytes = <<>>

\* SINGLE|ANYONECANPAY with i = len(outputs) < len(inputs): the ValueError.
C6_Witness ==
    /\ Returned("get_transaction_digest")
    /\ result.status = "ValueError"
    /\ result.args.sighash = 131
    /\ result.args.txin_index = Len(Caller.outputs)
    /\ result.args.txin_index < Len(Caller.inputs)

\* The fields of a BIP-143 preimage p whose script code has n bytes, by
\* position: the layout C2 gives.
C2_Field(p, n, name) ==
    LET at(lo, len) == SubSeq(p, lo, lo + len - 1)
    IN  CASE name = "version"      -> at(1, 4)
          [] name = "hashPrevouts" -> at(5, 32)
          [] name = "hashSequence" -> at(37, 32)
          [] name = "txid"         -> at(69, 32)
          [] name = "txout_index"  -> at(101, 4)
          [] name = "script_len"   -> at(105, 1)
          [] name = "script"       -> at(106, n)
          [] name = "amount"       -> at(106 + n, 8)
          [] name = "sequence"     -> at(114 + n, 4)
          [] name = "hashOutputs"  -> at(118 + n, 32)
          [] name = "locktime"     -> at(150 + n, 4)
          [] name = "sighash"      -> at(154 + n, 4)

\* reverse(txid) and the index as 4 bytes, for every input of t.
C2_AllOutpoints(t) ==
    Flatten([k \in 1..Len(t.inputs) |->
               Reverse(unhexlify(t.inputs[k].txid))
                   \o Bytes(<<t.inputs[k].txout_index, 0, 0, 0>>)])

\* amount (8 bytes), one length byte and the script of an output.
C2_Output(o) ==
    pack_signed(o.amount, 8)
        \o <<B(Len(Script_to_bytes(o.script_pubkey)))>>
        \o Script_to_bytes(o.script_pubkey)

C2_AllOutputs(t) == Flatten([k \in 1..Len(t.outputs) |-> C2_Output(t.outputs[k])])

\* What C2 says of a returned segwit call but for hashOutputs: the length,
\* the order and content of the fields, and when hashPrevouts and
\* hashSequence are zero.  anyone is (sighash & 0xF0) = 0x80, as section 4.8
\* of the specification defines it.
C2_Layout(t, a, p) ==
    LET n == Len(Script_to_bytes(a.script))
        txin == t.inputs[a.txin_index + 1]
        anyone == (a.sighash \div 16) % 16 = 8
        sign_all == a.sighash % 32 \notin {2, 3}
    IN  /\ Len(p) = 157 + n
        /\ C2_Field(p, n, "version") = t.version
        /\ C2_Field(p, n, "hashPrevouts") = Zeros(32) <=> anyone
        /\ ~anyone => C2_Field(p, n, "hashPrevouts") = sha256d(C2_AllOutpoints(t))
        /\ C2_Field(p, n, "hashSequence") = Zeros(32) <=> (anyone \/ ~sign_all)
        /\ ~(anyone \/ ~sign_all) =>
              C2_Field(p, n, "hashSequence") =
                  sha256d(Flatten([k \in 1..Len(t.inputs) |-> t.inputs[k].sequence]))
        /\ C2_Field(p, n, "txid") = Reverse(unhexlify(txin.txid))
        /\ C2_Field(p, n, "txout_index") = Bytes(<<txin.txout_index, 0, 0, 0>>)
        /\ C2_Field(p, n, "script_len") = <<B(n)>>
        /\ C2_Field(p, n, "script") = Script_to_bytes(a.script)
        /\ C2_Field(p, n, "amount") = pack_signed(a.amount, 8)
        /\ C2_Field(p, n, "sequence") = txin.sequence
        /\ C2_Field(p, n, "locktime") = t.locktime
        /\ C2_Field(p, n, "sighash") = Bytes(<<a.sighash, 0, 0, 0>>)

C2_InScope ==
    /\ Returned("get_transaction_segwit_digest")
    /\ result.args.txin_index < Len(Caller.inputs)
    /\ Len(Script_to_bytes(result.args.script)) < 253

\* C2 as stated: the layout, and hashOutputs is the hash of all the outputs
\* if and only if the base type is neither NONE nor SINGLE.
C2_Original ==
    C2_InScope =>
        /\ result.status = "ok"
        /\ C2_Layout(Caller, result.args, result.bytes)
        /\ C2_Field(result.bytes, Len(Script_to_bytes(result.args.script)),
                    "hashOutputs") = sha256d(C2_AllOutputs(Caller))
           <=> result.args.sighash % 32 \notin {2, 3}

\* C2 (amended): a returned segwit call with i < len(inputs) and a script
\* code shorter than 253 bytes hashed version, hashPrevouts, hashSequence,
\* reverse(txid_i), the index as 4 bytes, one length byte and the script
\* code, the amount as 8 bytes, sequence_i, hashOutputs, locktime and the
\* sighash as 4 bytes (157 + len(s) bytes); hashPrevouts is zero iff
\* ANYONECANPAY, hashSequence is zero iff ANYONECANPAY or NONE or SINGLE;
\* hashOutputs is the hash of all the outputs if the base type is neither
\* NONE nor SINGLE, the hash of output i if it is SINGLE and i < len(outputs),
\* and 32 zero bytes otherwise; so it is the hash of all the outputs iff the
\* base type is neither NONE nor SINGLE or it is SINGLE, i = 0 and the
\* transaction has one output.
C2_SegwitPreimage ==
    C2_InScope =>
        LET a == result.args
            base == a.sighash % 32
            hashOutputs == C2_Field(result.bytes, Len(Script_to_bytes(a.script)),
                                    "hashOutputs")
        IN  /\ result.status = "ok"
            /\ C2_Layout(Caller, a, result.bytes)
            /\ hashOutputs =
                 IF base \notin {2, 3} THEN sha256d(C2_AllOutputs(Caller))
                 ELSE IF base = 3 /\ a.txin_index < Len(Caller.outputs)
                 THEN sha256d(C2_Output(Caller.outputs[a.txin_index + 1]))
                 ELSE Zeros(32)
            /\ hashOutputs = sha256d(C2_AllOutputs(Caller))
               <=> \/ base \notin {2, 3}
                   \/ base = 3 /\ a.txin_index = 0 /\ Len(Caller.outputs) = 1

\* SINGLE|ANYONECANPAY on the second input with the 252-byte script code.
C2_Witness ==
    /\ Returned("get_transaction_segwit_digest")
    /\ result.status = "ok"
    /\ result.args.sighash = 131
    /\ result.args.txin_index = 1
    /\ Len(Caller.outputs) = 2
    /\ Len(Script_to_bytes(result.args.script)) = 252

\* C7: get_transaction_segwit_digest called with a sighash of base type
\* SINGLE and len(outputs) <= i < len(inputs) returns, and the hashOutputs
\* field of the bytes it hashed is 32 zero bytes.
C7_SegwitSingleOutOfRange ==
    ( /\ Returned("get_transaction_segwit_digest")
      /\ result.args.sighash % 32 = 3
      /\ result.args.txin_index >= Len(Caller.outputs)
      /\ result.args.txin_index < Len(Caller.inputs) )
    => /\ result.status = "ok"
       /\ C2_Field(result.bytes, Len(Script_to_bytes(result.args.script)),
                   "hashOutputs") = Bytes([k \in 1..32 |-> 0])

\* SINGLE on the second input of a transaction with one output.
C7_Witness ==
    /\ Returned("get_transaction_segwit_digest")
    /\ result.status = "ok"
    /\ result.args.sighash = 3
    /\ result.args.txin_index = 1
    /\ Len(Caller.outputs) = 1
    /\ Len(Caller.inputs) = 2

\* One length byte and the script.
C3_LenPrefixed(script) ==
    <<B(Len(Script_to_bytes(script)))>> \o Script_to_bytes(script)

\* amount (8 bytes), one length byte and the script of an output or prevout.
C3_Output(amount, script) == Bytes(le_digits(amount, 8)) \o C3_LenPrefixed(script)

\* reverse(txid) and the index as 4 bytes.
C3_Outpoint(in) ==
    Reverse(unhexlify(in.txid)) \o Bytes(<<in.txout_index, 0, 0, 0>>)

\* The sections that C3 lists, in its order, up to the extension of a script
\* spend; the content of each digest is that of section 4.9 of the
\* specification.
C3_Sections(t, a) ==
    LET anyone == a.sighash >= 128
        output_type == a.sighash % 4
        i == a.txin_index
    IN  <<B(0), B(a.sighash)>>
        \o t.version
        \o t.locktime
        \o (IF ~anyone
            THEN sha256(Flatten([k \in 1..Len(t.inputs) |-> C3_Outpoint(t.inputs[k])]))
                 \o sha256(Flatten([k \in 1..Len(a.amounts) |->
                                       Bytes(le_digits(a.amounts[k], 8))]))
                 \o sha256(Flatten([k \in 1..Len(a.script_pubkeys) |->
                                       C3_LenPrefixed(a.script_pubkeys[k])]))
                 \o sha256(Flatten([k \in 1..Len(t.inputs) |-> t.inputs[k].sequence]))
            ELSE <<>>)
        \o (IF output_type \notin {2, 3}
            THEN sha256(Flatten([k \in 1..Len(t.outputs) |->
                    C3_Output(t.outputs[k].amount, t.outputs[k].script_pubkey)]))
            ELSE <<>>)
        \o <<B(2 * a.ext_flag)>>
        \o (IF anyone
            THEN C3_Outpoint(t.inputs[i + 1])
                 \o C3_Output(a.amounts[i + 1], a.script_pubkeys[i + 1])
                 \o t.inputs[i + 1].sequence
            ELSE Bytes(<<i, 0, 0, 0>>))
        \o (IF output_type = 3
            THEN sha256(C3_Output(t.outputs[i + 1].amount,
                                  t.outputs[i + 1].script_pubkey))
            ELSE <<>>)

\* e is the extension of a script spend: a TapLeaf tagged hash of a leaf
\* version byte, the varint length of the script and the script; the key
\* version 0x00; FFFFFFFF.
C3_IsExtension(e, script) ==
    /\ Len(e) = 37
    /\ \A k \in 1..32 : e[k].t = "TapLeaf" /\ e[k].v = k /\ e[k].of = e[1].of
    /\ Len(e[1].of) >= 1
    /\ Tail(e[1].of) = prepend_varint(Script_to_bytes(script))
    /\ SubSeq(e, 33, 37) = Bytes(<<0, 255, 255, 255, 255>>)

\* C3: the bytes that a returned get_transaction_taproot_digest call
\* tag-hashed are: 0x00, the sighash byte, version, locktime; the digests of
\* the prevouts, amounts, scriptPubKeys and sequences iff bit 0x80 of the
\* sighash is clear; the digest of all outputs iff sighash & 3 is neither NONE
\* nor SINGLE; the byte 2 * ext_flag; outpoint, amount, length-prefixed
\* scriptPubKey and sequence of input i if bit 0x80 is set, else i as 4
\* bytes; the digest of output i iff sighash & 3 is SINGLE; and, iff ext_flag
\* is 1, the TapLeaf hash, 0x00 and FFFFFFFF.
C3_TaprootPreimage ==
    (Returned("get_transaction_taproot_digest") /\ result.status = "ok") =>
        LET head == C3_Sections(Caller, result.args)
            p == result.bytes
        IN  IF result.args.ext_flag = 1
            THEN /\ Len(p) = Len(head) + 37
                 /\ SubSeq(p, 1, Len(head)) = head
                 /\ C3_IsExtension(SubSeq(p, Len(head) + 1, Len(p)), result.args.script)
            ELSE p = head

\* A script spend signed SINGLE|ANYONECANPAY on the second input.
C3_Witness ==
    /\ Returned("get_transaction_taproot_digest")
    /\ result.status = "ok"
    /\ result.args.ext_flag = 1
    /\ result.args.sighash = 131
    /\ result.args.txin_index = 1
    /\ Len(result.args.amounts) = Len(Caller.inputs)
    /\ Len(result.args.script_pubkeys) = Len(Caller.inputs)

\* C8: a segwit or taproot digest call with i < len(inputs) and, for taproot,
\* one prevout script and one prevout amount per input, returns a digest of
\* 32 bytes, whatever the sighash.
C8_DigestsNeverFail ==
    ( /\ pc = "returned"
      /\ result.op \in {"get_transaction_segwit_digest",
                        "get_transaction_taproot_digest"}
      /\ result.args.txin_index < Len(Caller.inputs)
      /\ result.op = "get_transaction_taproot_digest" =>
            /\ Len(result.args.amounts) = Len(Caller.inputs)
            /\ Len(result.args.script_pubkeys) = Len(Caller.inputs) )
    => /\ result.status = "ok"
       /\ Len(tagged_hash(result.bytes, "TapSighash")) = 32
       /\ Len(sha256d(result.bytes)) = 32

\* C9: a taproot digest call whose amounts or script_pubkeys list has not one
\* entry per input is rejected: it ends in an error, whatever the sighash
\* and the input index.
C9_TaprootShapeRejected ==
    ( /\ Returned("get_transaction_taproot_digest")
      /\ \/ Len(result.args.amounts) # Len(Caller.inputs)
         \/ Len(result.args.script_pubkeys) # Len(Caller.inputs) )
    => result.status # "ok"

\* C10: in a taproot script spend (ext_flag = 1) the data of the TapLeaf
\* tagged hash begins with the leaf_ver byte that the caller passed.
C10_LeafVersionCommitted ==
    ( /\ Returned("get_transaction_taproot_digest")
      /\ result.status = "ok"
      /\ Len(result.args.amounts) = Len(Caller.inputs)
      /\ Len(result.args.script_pubkeys) = Len(Caller.inputs)
      /\ result.args.ext_flag = 1 )
    => result.bytes[Len(result.bytes) - 36].of[1] = B(result.args.leaf_ver)

(***************************************************************************)
(* Properties of the wire format.                                          *)
(***************************************************************************)
\* C5: Transaction.from_raw(t.to_bytes(t.has_segwit)) returns a transaction
\* equal to t in every field: version, has_segwit, inputs, outputs, witness
\* stack items and locktime.
C5_RoundTrip ==
    ( /\ Returned("from_raw")
      /\ Len(Caller.inputs) >= 1
      /\ Len(Caller.outputs) >= 1 )
    => /\ result.status = "ok"
       /\ result.value = Caller

\* C12: Transaction.from_raw on a proper prefix of the serialisation of a
\* transaction with an input and an output raises.
C12_TruncatedRejected ==
    ( /\ Returned("from_raw_truncated")
      /\ Len(Caller.inputs) >= 1
      /\ Len(Caller.outputs) >= 1 )
    => result.status # "ok"

\* C19: Transaction.from_raw sets has_segwit, and starts to read the input
\* count two bytes after the version, if and only if byte 4 is 0x00 and
\* byte 5 is 0x01; otherwise it reads the input count at byte 4.
C19_SegwitDetection ==
    ( /\ pc = "returned"
      /\ result.op \in {"from_raw", "from_raw_truncated"} )
    => LET seg == Slice(result.bytes, 4, 6) = <<B(0), B(1)>>
       IN  SegwitMarker(result.bytes) =
              [has_segwit |-> seg, cursor |-> IF seg THEN 6 ELSE 4]

(***************************************************************************)
(* More properties of the digest engines.                                  *)
(***************************************************************************)
\* The bytes get_transaction_taproot_digest tag-hashes when called on the
\* caller's transaction with the arguments a; <<>> when the call raises.
C11_Preimage(a) ==
    LET c == Transaction_copy(heap, Self)
    IN  IF \/ TaprootInputIndexError(c.heap, c.addr, a)
           \/ TaprootOutputIndexError(c.heap, c.addr, a)
        THEN <<>>
        ELSE TaprootPreimage(c.heap, Self, c.addr, a)

\* C11: when get_transaction_taproot_digest has returned from a call with
\* sighash 0 (DEFAULT) or 1 (ALL), the bytes it tag-hashed differ from the
\* bytes the same call with the other of the two sighashes tag-hashes, and
\* they differ in the second byte (the hash type, 0 against 1) only.
C11_DefaultAndAllDiffer ==
    ( /\ Returned("get_transaction_taproot_digest")
      /\ result.args.sighash \in {0, 1} )
    => LET other == C11_Preimage([result.args EXCEPT !.sighash = 1 - @])
       IN  /\ result.status = "ok"
           /\ result.bytes # other
           /\ result.bytes[2] = B(result.args.sighash)
           /\ other = [result.bytes EXCEPT ![2] = B(1 - result.args.sighash)]

\* A script-path DEFAULT digest for the second of two inputs.
C11_Witness ==
    /\ Returned("get_transaction_taproot_digest")
    /\ result.status = "ok"
    /\ result.args.sighash = 0
    /\ result.args.ext_flag = 1
    /\ result.args.txin_index = 1
    /\ Len(Caller.inputs) = 2

\* The transaction t before anything was signed: every script_sig empty and
\* no witnesses.
C20_Unsigned(t) ==
    [t EXCEPT !.inputs = [k \in 1..Len(t.inputs) |->
                             [t.inputs[k] EXCEPT !.script_sig = EmptyScript]],
              !.witnesses = <<>>]

\* The outcome [status, bytes] of get_transaction_digest with the arguments
\* a on a transaction whose value is t.
C20_Legacy(t, a) ==
    LET c  == Transaction_copy(NewTransaction(t), Self)
        h0 == ClearScriptSigs(c.heap, c.addr)
        h1 == SubSeq(h0, 1, Len(h0))
        i  == a.txin_index
        h2 == [h1 EXCEPT ![InputsOf(h1, c.addr)[i + 1]].script_sig = a.script]
        h3 == IF LegacySighashNone(a.sighash) THEN SighashNone(h2, c.addr, i)
              ELSE IF LegacySighashSingle(a.sighash) THEN SighashSingle(h2, c.addr, i)
              ELSE h2
        h4 == IF BitAnd(a.sighash, SIGHASH_ANYONECANPAY) # 0
              THEN AnyoneCanPay(h3, c.addr, i) ELSE h3
    IN  IF i >= Len(t.inputs) THEN [status |-> "IndexError", bytes |-> <<>>]
        ELSE IF LegacySighashSingle(a.sighash) /\ i >= Len(t.outputs)
        THEN [status |-> "ValueError", bytes |-> <<>>]
        ELSE [status |-> "ok", bytes |-> LegacyPreimage(h4, c.addr, a.sighash)]

\* The same for get_transaction_segwit_digest.
C20_Segwit(t, a) ==
    LET c == Transaction_copy(NewTransaction(t), Self)
    IN  IF a.txin_index >= Len(t.inputs) THEN [status |-> "IndexError", bytes |-> <<>>]
        ELSE IF Len(Script_to_bytes(a.script)) > 255
        THEN [status |-> "struct.error", bytes |-> <<>>]
        ELSE [status |-> "ok",
              bytes |-> SegwitPreimage(c.heap, Self, c.addr, a.txin_index,
                                       a.script, a.amount, a.sighash)]

\* The same for get_transaction_taproot_digest.
C20_Taproot(t, a) ==
    LET c == Transaction_copy(NewTransaction(t), Self)
    IN  IF \/ TaprootInputIndexError(c.heap, c.addr, a)
           \/ TaprootOutputIndexError(c.heap, c.addr, a)
        THEN [status |-> "IndexError", bytes |-> <<>>]
        ELSE [status |-> "ok", bytes |-> TaprootPreimage(c.heap, Self, c.addr, a)]

\* C20: whatever script_sigs and witnesses the caller's transaction carries
\* when a digest method is called, the method ends as it does, and hashes the
\* bytes it hashes, on the same transaction with every script_sig empty and
\* no witnesses.
C20_SignaturesNotCommitted ==
    LET t == C20_Unsigned(Caller)
        outcome == [status |-> result.status, bytes |-> result.bytes]
    IN  /\ Returned("get_transaction_digest") => outcome = C20_Legacy(t, result.args)
        /\ Returned("get_transaction_segwit_digest") =>
              outcome = C20_Segwit(t, result.args)
        /\ Returned("get_transaction_taproot_digest") =>
              outcome = C20_Taproot(t, result.args)

\* A legacy digest for the first input of a transaction with witnesses whose
\* two inputs both carry a script_sig.
C20_Witness ==
    /\ Returned("get_transaction_digest")
    /\ result.status = "ok"
    /\ result.args.txin_index = 0
    /\ Len(Caller.inputs) = 2
    /\ \A k \in 1..2 : Caller.inputs[k].script_sig = SigScript
    /\ Len(Caller.witnesses) = 2

(***************************************************************************)
(* Properties of the witnesses, the identifiers and the sizes.             *)
(***************************************************************************)
\* The serialisation of the transaction t with marker and flag, around the
\* witness section w.
C13_Around(t, w) ==
    t.version
    \o <<B(0), B(1)>>
    \o encode_varint(Len(t.inputs))
    \o Flatten([k \in 1..Len(t.inputs) |-> TxInput_to_bytes(t.inputs[k])])
    \o encode_varint(Len(t.outputs))
    \o Flatten([k \in 1..Len(t.outputs) |-> TxOutput_to_bytes(t.outputs[k])])
    \o w
    \o t.locktime

\* A witness entry: the number of items as one byte, then each item behind
\* the varint of its length.
C14_Entry(stack) == <<B(Len(stack))>> \o TxWitnessInput_to_bytes(stack)

\* C13: to_bytes(True) of a transaction with has_segwit true whose witness
\* stacks have fewer than 128 items is the version, 00 01, the inputs, the
\* outputs, one witness entry per input (the single byte 00 for an input
\* that the witnesses list has no stack for) and the locktime.
C13_WitnessCardinality ==
    ( /\ Returned("to_bytes")
      /\ Caller.has_segwit
      /\ \A k \in 1..Len(Caller.witnesses) : Len(Caller.witnesses[k]) < 128 )
    => result.bytes =
          C13_Around(Caller,
             Flatten([k \in 1..Len(Caller.inputs) |->
                        IF k <= Len(Caller.witnesses)
                        THEN C14_Entry(Caller.witnesses[k]) ELSE <<B(0)>>]))

\* C14: in to_bytes(True) of a transaction with one witness stack per input,
\* each of at most 255 items, every witness entry is one byte holding the
\* number of items followed by the items; and get_vsize counts one byte for
\* each number of items.
C14_CountIsOneByte ==
    LET section == Flatten([k \in 1..Len(Caller.witnesses) |->
                               C14_Entry(Caller.witnesses[k])])
        base == Len(TxidData(heap, Self))
    IN  ( /\ Caller.has_segwit
          /\ Len(Caller.witnesses) = Len(Caller.inputs)
          /\ \A k \in 1..Len(Caller.witnesses) : Len(Caller.witnesses[k]) <= 255 )
        => /\ Returned("to_bytes") => result.bytes = C13_Around(Caller, section)
           /\ Returned("get_vsize") =>
                 result.value = base + ((2 + Len(section) + 3) \div 4)

\* Every field of the caller's transaction but the witnesses.
C15_Rest(h) == [TxValue(h, Self) EXCEPT !.witnesses = <<>>]

\* C15: a step that changes nothing but the witnesses of the caller's
\* transaction leaves the bytes get_txid hashes as they were; a step that
\* changes an item of a witness stack of a transaction with has_segwit true
\* changes the bytes get_hash (get_wtxid) hashes; and with has_segwit false
\* get_txid and get_hash hash the same bytes.
C15_TxidIgnoresWitnesses ==
    [][ /\ C15_Rest(heap') = C15_Rest(heap) =>
             TxidData(heap', Self) = TxidData(heap, Self)
        /\ ( /\ heap[Self].has_segwit
             /\ C15_Rest(heap') = C15_Rest(heap)
             /\ TxValue(heap', Self) # TxValue(heap, Self)
             /\ Len(WitnessesOf(heap', Self)) = Len(WitnessesOf(heap, Self)) )
           => HashData(heap', Self) # HashData(heap, Self)
        /\ ~heap[Self].has_segwit => TxidData(heap, Self) = HashData(heap, Self)
      ]_vars

\* get_txid on a transaction with has_segwit true after the first item of
\* its second witness stack was replaced.
C15_Witness ==
    /\ Returned("get_txid")
    /\ Caller.has_segwit
    /\ Len(Caller.witnesses) = 2
    /\ Caller.witnesses[2] # <<>>
    /\ Caller.witnesses[2][1] = <<3, 0, 4, 5>>

\* C16: get_vsize() <= get_size(), with equality if and only if has_segwit
\* is false; with has_segwit true, get_vsize() is base_size plus the quarter,
\* rounded up, of the marker, flag and witness bytes, where base_size is the
\* size of the serialisation without them.
C16_VsizeBound ==
    Returned("get_vsize") =>
        LET size == Len(HashData(heap, Self))
            base_size == Len(TxidData(heap, Self))
            weighted == size - base_size
        IN  /\ result.value <= size
            /\ result.value = size <=> ~Caller.has_segwit
            /\ Caller.has_segwit =>
                  /\ size = Transaction_get_size(heap, Self)
                  /\ 4 * (result.value - base_size) >= weighted
                  /\ 4 * (result.value - base_size) < weighted + 4

\* get_vsize on a transaction with has_segwit true and two witness stacks,
\* one of them of 128 items.
C16_Witness ==
    /\ Returned("get_vsize")
    /\ Caller.has_segwit
    /\ Len(Caller.witnesses) = 2
    /\ Len(Caller.witnesses[1]) = 128
    /\ Len(Caller.witnesses[2]) = 2

(***************************************************************************)
(* Properties of the sequence encoder.                                     *)
(***************************************************************************)
\* C17: a Sequence of type TYPE_RELATIVE_TIMELOCK is constructed if and only
\* if its value is in 1..65535, and for_input_sequence() then returns 4
\* bytes that, read as a little-endian integer, are the value plus 2^22 if
\* is_type_block is false: the value in the low 16 bits, bit 22 for the time
\* units, bit 31 and every other bit clear.
C17_RelativeTimelock ==
    LET seq == result.value
    IN  /\ ( /\ Returned("Sequence")
             /\ seq.seq_type = TYPE_RELATIVE_TIMELOCK )
           => (result.status = "ok" <=> seq.value \in 1..65535)
        /\ ( /\ Returned("for_input_sequence")
             /\ seq.seq_type = TYPE_RELATIVE_TIMELOCK )
           => /\ Len(result.bytes) = 4
              /\ \A k \in 1..4 : result.bytes[k].t = "b" /\ result.bytes[k].v \in 0..255
              /\ result.bytes[4].v < 128
              /\ from_bytes_big(Reverse(result.bytes)) =
                    seq.value + (IF seq.is_type_block THEN 0 ELSE 4194304)

\* is_type_block = false, value = 1 gives 01 00 40 00.
C17_Witness ==
    /\ Returned("for_input_sequence")
    /\ result.value = [seq_type |-> TYPE_RELATIVE_TIMELOCK, value |-> 1,
                       is_type_block |-> FALSE]
    /\ result.bytes = Bytes(<<1, 0, 64, 0>>)

(***************************************************************************)
(* Properties of the clone.                                                *)
(***************************************************************************)
\* C18: while the caller holds t and c = Transaction.copy(t), no change made
\* through one of them changes the other: no step changes the value of both.
C18_CopyIsDeep ==
    [][ ( /\ result.op = "copy"
          /\ result' = result )
        => ~ /\ TxValue(heap', Self) # TxValue(heap, Self)
             /\ TxValue(heap', result.value) # TxValue(heap, result.value)
      ]_vars

====
